---- MODULE Spec2Model ----
(***************************************************************************)
(* Authentication routes of the backend: register, login, forgot-password, *)
(* change-password, verify (routes/auth.js) and google login               *)
(* (routes/auth/googleAuth.js), over the user store, together with the     *)
(* rate limiter placed in front of the public credential endpoints.        *)
(*                                                                         *)
(* A handler is split at its accesses to the user store, the only state    *)
(* requests share: what it does between two of them (input checks, bcrypt) *)
(* works on the request's own data and is taken together with the read     *)
(* that precedes it.  The answer that follows an awaited write is sent by  *)
(* the continuation of that write, so the write and the answer form one    *)
(* step.                                                                   *)
(***************************************************************************)
EXTENDS Integers, Sequences, FiniteSets, TLC

\* ------------------------------------------------------------------ bounds
MaxReqs     == 3      \* requests handled in one behaviour
MaxInFlight == 2      \* requests being handled at the same time

\* ------------------------------------------------------------------ inputs
Emails        == {"a@x.com", "A@x.com", "b@x.com"}
RegPasswords  == {"pass1234"}
LoginPasswords == {"pass1234", "word5678"}
RoleInputs    == {"", "admin"}          \* "" : the body carries no role
UserName      == "Ann"
UserPhone     == "555"

\* case folding on the modelled addresses
Lower(e) == IF e = "A@x.com" THEN "a@x.com" ELSE e

\* ------------------------------------------------------------- bcrypt
saltRounds == 12

\* bcrypt.hash(plaintext, saltRounds): a one-way digest of the plaintext
Hash(p) == [alg |-> "bcrypt", rounds |-> saltRounds, of |-> p]

\* bcrypt.compare(plaintext, digest) on a digest that is present
Compare(p, h) == h.alg = "bcrypt" /\ h.of = p

\* bcrypt.compare(plaintext, user.passwordHash): the digest read from the
\* document is <<h>>, or <<>> when the document has no passwordHash, and
\* bcryptjs then rejects with "Illegal arguments"
CompareOutcome(p, hs) ==
    IF hs = <<>> THEN "throw"
    ELSE IF Compare(p, hs[1]) THEN "valid" ELSE "invalid"

\* ------------------------------------------------------------- user store
\* users is the collection, a user's _id is its position in it

\* Users.findOne({ email }): equality filter on the email path; 0 is null
FindOne(us, e) ==
    IF \E i \in 1..Len(us) : us[i].email = e
    THEN CHOOSE i \in 1..Len(us) : us[i].email = e
    ELSE 0

\* Users.findById(id); 0 is null
FindById(us, id) == IF id \in 1..Len(us) THEN id ELSE 0

\* the unique index on email, compared without regard to case: an insert
\* that collides is refused with error code 11000
UniqueViolation(us, e) == \E i \in 1..Len(us) : Lower(us[i].email) = Lower(e)

\* schema defaults applied to a new document
SchemaDefaults(now) ==
    [role |-> "user", provider |-> "local", createdAt |-> now, updatedAt |-> now]

\* the passwordHash of a stored document as bcrypt.compare receives it
HashOf(u) == IF "passwordHash" \in DOMAIN u THEN <<u.passwordHash>> ELSE <<>>

\* ------------------------------------------------------------- responses
Response(status, success, message, error, user, token) ==
    [status |-> status, success |-> success, message |-> message,
     error |-> error, user |-> user, token |-> token]

NoResponse == Response(0, FALSE, "", "", <<>>, <<>>)

\* generateToken(userId, role)
generateToken(userId, role) == [userId |-> userId, role |-> role]

\* toObject() without the delete
SanitizeNothing(u) == u

\* user.toObject(); delete userResponse.passwordHash
Sanitize(u) == [f \in (DOMAIN u) \ {"passwordHash"} |-> u[f]]

\* ------------------------------------------------------------ rate limiter
\* one attempt too many per window
maxPlusOne == 5 + 1

windowMs == 15 * 60 * 1000
max      == 5

Keys      == {"ip1", "ip2"}
Endpoints == {"register", "login", "forgot-password"}
TickMs    == 5 * 60 * 1000
MaxTicks  == 4       \* the limiter's clock stops after so many ticks
MaxHits   == 7       \* requests that reach the limiter in one behaviour

RateLimitedResponse ==
    Response(429, FALSE,
             "Too many authentication attempts, please try again later",
             "", <<>>, <<>>)

\* the store's increment for a key: a new window when the key has none or
\* its window has elapsed, one more hit in the current window otherwise
Increment(entry, t) ==
    IF entry.count = 0 \/ entry.resetTime <= t
    THEN [count |-> 1, resetTime |-> t + windowMs]
    ELSE [count |-> entry.count + 1, resetTime |-> entry.resetTime]

\* the limiter's verdict on a hit count
Admits(count) == count <= max

\* ------------------------------------------------------------- requests
NewReq(id, op) ==
    [id |-> id, op |-> op, pc |-> "start",
     email |-> "", password |-> "", role |-> "",
     oldPassword |-> "", newPassword |-> "", confirmPassword |-> "",
     userId |-> 0, token |-> "", sub |-> "", viaUserInfo |-> FALSE,
     docId |-> 0, docHash |-> <<>>, docUpdatedAt |-> 0,
     newHash |-> <<>>, stamp |-> 0, known |-> 0, thrown |-> ""]

NoReq == NewReq(0, "none")

VARIABLES
    users,      \* the user collection
    clock,      \* the server's time (new Date())
    reqs,       \* the requests being handled, each with its locals
    last,       \* the request answered last, with its response
    nreq,       \* number of requests received so far
    hist,       \* per user: how its password came to be what it is
    env,        \* process.env.NODE_ENV
    hits,       \* the limiter's store: per client key, hit count and reset time
    now,        \* the time the limiter reads
    log,        \* the limiter's decisions so far: key, time, status
    lastLim     \* the limiter's last decision: endpoint and response

limVars  == <<hits, now, log, lastLim>>
authVars == <<users, clock, reqs, last, nreq, hist, env>>
vars     == <<users, clock, reqs, last, nreq, hist, env, hits, now, log, lastLim>>

Done(r, resp) == [req |-> r, resp |-> resp]

CanStart == nreq < MaxReqs /\ Cardinality(reqs) < MaxInFlight

\* the errors a rejected call carries
DuplicateKey   == [code |-> 11000, message |-> "E11000 duplicate key error"]
IllegalArgs    == [code |-> 0, message |-> "Illegal arguments: string, undefined"]
StoreFailure   == [code |-> 0, message |-> "MongoNetworkError: connection lost"]

\* process.env.NODE_ENV === 'development' ? error.message : 'Internal server error'
ErrorDetail(err) ==
    IF env = "development" THEN err.message ELSE "Internal server error"

\* what every start has in common
InitCommon ==
    /\ users = <<>>
    /\ clock = 0
    /\ reqs = {}
    /\ last = Done(NoReq, NoResponse)
    /\ nreq = 0
    /\ hist = <<>>
    /\ hits = [k \in Keys |-> [count |-> 0, resetTime |-> 0]]
    /\ now = 0
    /\ log = <<>>
    /\ lastLim = [endpoint |-> "", resp |-> NoResponse]

\* a production deployment
Init == InitCommon /\ env = "production"

\* ------------------------------------------------------------- register
\* role: role || 'user'
RegisterRole(role) == IF role = "" THEN "user" ELSE role

RegisterExistsResponse ==
    Response(409, FALSE, "User with this email already exists", "", <<>>, <<>>)

RegisterSuccessResponse(u) ==
    Response(201, TRUE, "User registered successfully", "",
             <<Sanitize(u)>>, <<generateToken(u.id, u.role)>>)

\* a catch block that does not recognise the duplicate-key error
RegisterCatchAll(err) ==
    Response(500, FALSE, "Registration failed", ErrorDetail(err), <<>>, <<>>)

\* the catch block of the register handler
RegisterCatch(err) ==
    IF err.code = 11000
    THEN Response(409, FALSE, "email already exists", "", <<>>, <<>>)
    ELSE Response(500, FALSE, "Registration failed", ErrorDetail(err), <<>>, <<>>)

\* POST /register arrives (admitted and validated): findOne on the email,
\* then bcrypt.hash(password, 12) and userData with new Date()
RegisterRequest(e, p, ro) ==
    /\ CanStart
    /\ nreq' = nreq + 1
    /\ LET r == [NewReq(nreq + 1, "register") EXCEPT
                   !.email = e, !.password = p, !.role = ro,
                   !.docId = FindOne(users, e)]
       IN IF r.docId # 0
          THEN /\ last' = Done(r, RegisterExistsResponse)
               /\ reqs' = reqs
               /\ clock' = clock
          ELSE /\ clock' = clock + 1
               /\ reqs' = reqs \cup
                          {[r EXCEPT !.pc = "save",
                                     !.newHash = <<Hash(r.password)>>,
                                     !.stamp = clock']}
               /\ last' = last
    /\ UNCHANGED <<users, hist>>
    /\ UNCHANGED <<env, limVars>>

\* the document register builds
RegisterDoc(r, id) ==
    [id |-> id, name |-> UserName, email |-> r.email,
     passwordHash |-> r.newHash[1], phone |-> UserPhone,
     role |-> RegisterRole(r.role),
     createdAt |-> r.stamp, updatedAt |-> r.stamp] @@ SchemaDefaults(clock)

\* user.save(), token, response
RegisterSave(r) ==
    /\ r \in reqs /\ r.op = "register" /\ r.pc = "save"
    /\ reqs' = reqs \ {r}
    /\ IF UniqueViolation(users, r.email)
       THEN /\ last' = Done([r EXCEPT !.thrown = DuplicateKey.message],
                            RegisterCatch(DuplicateKey))
            /\ UNCHANGED <<users, hist>>
       ELSE LET u == RegisterDoc(r, Len(users) + 1)
            IN /\ users' = Append(users, u)
               /\ hist' = Append(hist, [email |-> r.email, password |-> r.password,
                                        ok |-> {r.password}, changed |-> FALSE])
               /\ last' = Done(r, RegisterSuccessResponse(u))
    /\ UNCHANGED <<clock, nreq>>
    /\ UNCHANGED <<env, limVars>>

\* ------------------------------------------------------------- login
LoginNoUserResponse ==
    Response(401, FALSE, "Invalid email or password", "", <<>>, <<>>)

\* a message of its own for the wrong password
LoginBadPasswordTelling ==
    Response(401, FALSE, "Incorrect password", "", <<>>, <<>>)

LoginBadPasswordResponse ==
    Response(401, FALSE, "Invalid email or password", "", <<>>, <<>>)

\* a login token that always carries the default role
LoginSuccessDefaultRole(u) ==
    Response(200, TRUE, "Login successful", "",
             <<Sanitize(u)>>, <<generateToken(u.id, "user")>>)

LoginSuccessResponse(u) ==
    Response(200, TRUE, "Login successful", "",
             <<Sanitize(u)>>, <<generateToken(u.id, u.role)>>)

LoginCatch(err) ==
    Response(500, FALSE, "Login failed", ErrorDetail(err), <<>>, <<>>)

\* a user registered with exactly these credentials whose password no
\* change-password request has replaced since (0: none)
Registered(e, p) ==
    IF \E i \in 1..Len(hist) :
          hist[i].email = e /\ hist[i].password = p /\ ~hist[i].changed
    THEN CHOOSE i \in 1..Len(hist) :
          hist[i].email = e /\ hist[i].password = p /\ ~hist[i].changed
    ELSE 0

\* POST /login (admitted and validated): findOne on the email,
\* bcrypt.compare against the loaded document, token, response
LoginRequest(e, p) ==
    /\ CanStart
    /\ nreq' = nreq + 1
    /\ LET i == FindOne(users, e)
           out == IF i = 0 THEN "none"
                  ELSE CompareOutcome(p, HashOf(users[i]))
           r == [NewReq(nreq + 1, "login") EXCEPT
                   !.email = e, !.password = p, !.docId = i,
                   !.docHash = IF i = 0 THEN <<>> ELSE HashOf(users[i]),
                   !.known = Registered(e, p),
                   !.thrown = IF out = "throw" THEN IllegalArgs.message ELSE ""]
       IN last' = Done(r, IF i = 0 THEN LoginNoUserResponse
                          ELSE CASE out = "throw"   -> LoginCatch(IllegalArgs)
                                 [] out = "invalid" -> LoginBadPasswordResponse
                                 [] out = "valid"   -> LoginSuccessResponse(users[i]))
    /\ UNCHANGED <<users, clock, reqs, hist>>
    /\ UNCHANGED <<env, limVars>>

\* ------------------------------------------------------------- guard
\* authenticateToken: the identity a verified bearer token resolves to.
\* Tokens are issued for stored users only, so it is the id of one of them.
Identities == 1..Len(users)

AuthIdentity(uid) == [_id |-> uid, role |-> users[uid].role]

\* ------------------------------------------------------- change password
MinPasswordLength == 8

\* request bodies <<oldPassword, newPassword, confirmPassword>>: a missing
\* field, a confirmation that differs, a new password of 7 characters, one
\* equal to the old one, and changes between passwords of 8 and 9 characters
ChangePasswordInputs ==
    { <<"",          "word5678",  "word5678">>,
      <<"pass1234",  "word5678",  "pass1234">>,
      <<"pass1234",  "pass123",   "pass123">>,
      <<"pass1234",  "pass1234",  "pass1234">>,
      <<"pass1234",  "word5678",  "word5678">>,
      <<"pass1234",  "secret999", "secret999">>,
      <<"word5678",  "pass1234",  "pass1234">> }

\* the length check with <= in place of <
ChangePasswordValidationOffByOne(old, new, confirm) ==
    IF old = "" \/ new = "" \/ confirm = ""
    THEN Response(400, FALSE, "All fields are required", "", <<>>, <<>>)
    ELSE IF new # confirm
    THEN Response(400, FALSE, "New passwords do not match", "", <<>>, <<>>)
    ELSE IF Len(new) <= MinPasswordLength
    THEN Response(400, FALSE, "Password must be at least 8 characters long",
                  "", <<>>, <<>>)
    ELSE NoResponse

ChangePasswordValidation(old, new, confirm) ==
    IF old = "" \/ new = "" \/ confirm = ""
    THEN Response(400, FALSE, "All fields are required", "", <<>>, <<>>)
    ELSE IF new # confirm
    THEN Response(400, FALSE, "New passwords do not match", "", <<>>, <<>>)
    ELSE IF Len(new) < MinPasswordLength
    THEN Response(400, FALSE, "Password must be at least 8 characters long",
                  "", <<>>, <<>>)
    ELSE NoResponse

ChangePasswordNotFoundResponse ==
    Response(404, FALSE, "User not found", "", <<>>, <<>>)

ChangePasswordWrongOldResponse ==
    Response(401, FALSE, "Current password is incorrect", "", <<>>, <<>>)

ChangePasswordSuccessResponse ==
    Response(200, TRUE, "Password changed successfully", "", <<>>, <<>>)

ChangePasswordCatch(err) ==
    Response(500, FALSE, "Failed to change password", ErrorDetail(err),
             <<>>, <<>>)

\* the result of the comparison is not looked at
ChangePasswordVerdictIgnored(old, hs) == IF hs = <<>> THEN "throw" ELSE "valid"

\* what follows bcrypt.compare(oldPassword, user.passwordHash)
ChangePasswordVerdict(old, hs) == CompareOutcome(old, hs)

\* POST /change-password arrives behind the guard: input checks, findById,
\* bcrypt.compare on the old password, bcrypt.hash on the new one and the
\* assignments to the loaded document (updatedAt = new Date())
ChangePasswordRequest(uid, old, new, confirm) ==
    /\ CanStart
    /\ nreq' = nreq + 1
    /\ LET i == FindById(users, AuthIdentity(uid)._id)
           v == ChangePasswordValidation(old, new, confirm)
           r == [NewReq(nreq + 1, "changepw") EXCEPT
                   !.userId = uid, !.oldPassword = old, !.newPassword = new,
                   !.confirmPassword = confirm]
           d == [r EXCEPT !.docId = i,
                   !.docHash = IF i = 0 THEN <<>> ELSE HashOf(users[i]),
                   !.docUpdatedAt = IF i = 0 THEN 0 ELSE users[i].updatedAt]
           out == ChangePasswordVerdict(old, d.docHash)
       IN IF v # NoResponse
          THEN /\ last' = Done(r, v)
               /\ reqs' = reqs
               /\ clock' = clock
          ELSE IF i = 0
          THEN /\ last' = Done(d, ChangePasswordNotFoundResponse)
               /\ reqs' = reqs
               /\ clock' = clock
          ELSE IF out # "valid"
          THEN /\ last' = IF out = "throw"
                          THEN Done([d EXCEPT !.thrown = IllegalArgs.message],
                                    ChangePasswordCatch(IllegalArgs))
                          ELSE Done(d, ChangePasswordWrongOldResponse)
               /\ reqs' = reqs
               /\ clock' = clock
          ELSE /\ clock' = clock + 1
               /\ reqs' = reqs \cup
                          {[d EXCEPT !.pc = "save",
                                     !.newHash = <<Hash(new)>>,
                                     !.stamp = clock']}
               /\ last' = last
    /\ UNCHANGED <<users, hist>>
    /\ UNCHANGED <<env, limVars>>

\* writes the first document of the collection instead of the loaded one
SaveTargetFirst(r) == 1

\* the document user.save() writes: the modified paths of the loaded one
SaveTarget(r) == r.docId

\* user.save() and the success response
ChangePasswordSave(r) ==
    /\ r \in reqs /\ r.op = "changepw" /\ r.pc = "save"
    /\ reqs' = reqs \ {r}
    /\ users' = [users EXCEPT ![SaveTarget(r)] =
                    [@ EXCEPT !.passwordHash = r.newHash[1],
                              !.updatedAt = r.stamp]]
    /\ hist' = [hist EXCEPT ![r.docId] =
                    [@ EXCEPT !.ok = @ \cup {r.newPassword}, !.changed = TRUE]]
    /\ last' = Done(r, ChangePasswordSuccessResponse)
    /\ UNCHANGED <<clock, nreq>>
    /\ UNCHANGED <<env, limVars>>

\* ------------------------------------------------------- forgot password
ForgotPasswordTelling(e, found) ==
    IF e = ""
    THEN Response(400, FALSE, "Email is required", "", <<>>, <<>>)
    ELSE IF ~found
    THEN Response(200, TRUE,
           "If an account with that email exists, a password reset link has been sent.",
           "", <<>>, <<>>)
    ELSE Response(200, TRUE, "A password reset link has been sent.",
           "", <<>>, <<>>)

ForgotPasswordResponse(e, found) ==
    IF e = ""
    THEN Response(400, FALSE, "Email is required", "", <<>>, <<>>)
    ELSE IF ~found
    THEN Response(200, TRUE,
           "If an account with that email exists, a password reset link has been sent.",
           "", <<>>, <<>>)
    ELSE Response(200, TRUE,
           "If an account with that email exists, a password reset link has been sent.",
           "", <<>>, <<>>)

ForgotPasswordCatch(err) ==
    Response(500, FALSE, "Failed to process password reset request",
             ErrorDetail(err), <<>>, <<>>)

\* POST /forgot-password (admitted)
ForgotPasswordRequest(e) ==
    /\ CanStart
    /\ nreq' = nreq + 1
    /\ LET i == IF e = "" THEN 0 ELSE FindOne(users, e)
           r == [NewReq(nreq + 1, "forgot") EXCEPT !.email = e, !.docId = i]
       IN last' = Done(r, ForgotPasswordResponse(e, i # 0))
    /\ UNCHANGED <<users, clock, reqs, hist>>
    /\ UNCHANGED <<env, limVars>>

\* ------------------------------------------------------------- verify
VerifyResponse(identity) ==
    Response(200, TRUE, "Token is valid", "", <<identity>>, <<>>)

\* GET /verify behind the guard
VerifyRequest(uid) ==
    /\ CanStart
    /\ nreq' = nreq + 1
    /\ last' = Done([NewReq(nreq + 1, "verify") EXCEPT !.userId = uid],
                    VerifyResponse(AuthIdentity(uid)))
    /\ UNCHANGED <<users, clock, reqs, hist>>
    /\ UNCHANGED <<env, limVars>>

\* ------------------------------------------------------------ google login
\* request bodies: token is "" (absent), "bad", "good" or "anon"; info says
\* whether the body carries userInfo, whose email and sub may be absent ("");
\* the last body carries userInfo together with a token that does not verify
GoogleInputs ==
    { [token |-> "",     info |-> FALSE, email |-> "",        sub |-> ""],
      [token |-> "bad",  info |-> FALSE, email |-> "",        sub |-> ""],
      [token |-> "good", info |-> FALSE, email |-> "",        sub |-> ""],
      [token |-> "",     info |-> TRUE,  email |-> "",        sub |-> "sub-0"],
      [token |-> "",     info |-> TRUE,  email |-> "a@x.com", sub |-> ""],
      [token |-> "",     info |-> TRUE,  email |-> "b@x.com", sub |-> "sub-b"],
      [token |-> "anon", info |-> FALSE, email |-> "",        sub |-> ""],
      [token |-> "bad",  info |-> TRUE,  email |-> "",        sub |-> "sub-0"] }

\* client.verifyIdToken(...).getPayload(): <<>> when verification throws;
\* the token "anon" verifies and its payload has no email
VerifyIdToken(token) ==
    IF token = "good" THEN <<[email |-> "b@x.com", sub |-> "sub-b"]>>
    ELSE IF token = "anon" THEN <<[email |-> "", sub |-> "sub-0"]>>
    ELSE <<>>

GoogleMissingInputResponse ==
    Response(400, FALSE, "", "Token or userInfo is required", <<>>, <<>>)

\* the verification error left to the outer catch
GoogleInvalidTokenUncaught ==
    Response(400, FALSE, "Wrong number of segments in token",
             "Authentication failed", <<>>, <<>>)

GoogleInvalidTokenResponse ==
    Response(401, FALSE, "", "Invalid token", <<>>, <<>>)

GoogleNoEmailResponse ==
    Response(400, FALSE, "", "Email not provided", <<>>, <<>>)

\* jwt.sign({ id, email }, JWT_SECRET, { expiresIn: '7d' }) and the user object
GoogleSuccessResponse(u) ==
    Response(200, TRUE, "Login successful", "",
             <<[id |-> u.id, email |-> u.email, name |-> u.name]>>,
             <<[id |-> u.id, email |-> u.email, expiresIn |-> "7d"]>>)

\* the outer catch: err.message is sent as it is
GoogleCatch(errMessage) ==
    Response(400, FALSE, errMessage, "Authentication failed", <<>>, <<>>)

\* the claim the handler works with: userInfo if present, else the payload
GoogleUserData(g) ==
    IF g.info THEN <<[email |-> g.email, sub |-> g.sub]>>
    ELSE VerifyIdToken(g.token)

\* POST /google arrives: input checks, token verification, findOne
GoogleRequest(g) ==
    /\ CanStart
    /\ nreq' = nreq + 1
    /\ LET r  == [NewReq(nreq + 1, "google") EXCEPT
                    !.token = g.token, !.viaUserInfo = g.info]
           ud == GoogleUserData(g)
       IN IF g.token = "" /\ ~g.info
          THEN /\ last' = Done(r, GoogleMissingInputResponse)
               /\ reqs' = reqs
          ELSE IF ud = <<>>
          THEN /\ last' = Done(r, GoogleInvalidTokenResponse)
               /\ reqs' = reqs
          ELSE LET d == [r EXCEPT !.email = ud[1].email, !.sub = ud[1].sub,
                                  !.docId = IF ud[1].email = "" THEN 0
                                            ELSE FindOne(users, ud[1].email)]
               IN IF d.email = ""
                  THEN /\ last' = Done(d, GoogleNoEmailResponse)
                       /\ reqs' = reqs
                  ELSE IF d.docId # 0
                  THEN /\ last' = Done(d, GoogleSuccessResponse(users[d.docId]))
                       /\ reqs' = reqs
                  ELSE /\ reqs' = reqs \cup {[d EXCEPT !.pc = "create"]}
                       /\ last' = last
    /\ UNCHANGED <<users, clock, hist>>
    /\ UNCHANGED <<env, limVars>>

\* the document without its provider, which the schema then defaults
GoogleDocDefaultProvider(r, id) ==
    LET base == [id |-> id, email |-> r.email, name |-> UserName]
                @@ SchemaDefaults(clock)
    IN IF r.sub = "" THEN base ELSE [googleId |-> r.sub] @@ base

\* the document User.create receives; an undefined sub leaves googleId unset
GoogleDoc(r, id) ==
    LET base == [id |-> id, email |-> r.email, name |-> UserName,
                 provider |-> "google"] @@ SchemaDefaults(clock)
    IN IF r.sub = "" THEN base ELSE [googleId |-> r.sub] @@ base

\* User.create(...) and the response
GoogleCreate(r) ==
    /\ r \in reqs /\ r.op = "google" /\ r.pc = "create"
    /\ reqs' = reqs \ {r}
    /\ IF UniqueViolation(users, r.email)
       THEN /\ last' = Done([r EXCEPT !.thrown = DuplicateKey.message],
                            GoogleCatch(DuplicateKey.message))
            /\ UNCHANGED <<users, hist>>
       ELSE LET u == GoogleDoc(r, Len(users) + 1)
            IN /\ users' = Append(users, u)
               /\ hist' = Append(hist, [email |-> r.email, password |-> "",
                                        ok |-> {}, changed |-> FALSE])
               /\ last' = Done(r, GoogleSuccessResponse(u))
    /\ UNCHANGED <<clock, nreq>>
    /\ UNCHANGED <<env, limVars>>

Next ==
    \/ \E e \in Emails, p \in RegPasswords, ro \in RoleInputs : RegisterRequest(e, p, ro)
    \/ \E r \in reqs : RegisterSave(r)
    \/ \E e \in Emails, p \in LoginPasswords : LoginRequest(e, p)
    \/ \E uid \in Identities, b \in ChangePasswordInputs :
         ChangePasswordRequest(uid, b[1], b[2], b[3])
    \/ \E r \in reqs : ChangePasswordSave(r)
    \/ \E e \in Emails \cup {""} : ForgotPasswordRequest(e)
    \/ \E uid \in Identities : VerifyRequest(uid)
    \/ \E g \in GoogleInputs : GoogleRequest(g)
    \/ \E r \in reqs : GoogleCreate(r)

\* ------------------------------------------------------ limiter actions
\* authLimiter in front of register, login and forgot-password: one store
\* shared by the three routes, keyed by the client key
Limited(k, ep) ==
    /\ Len(log) < MaxHits
    /\ LET e == Increment(hits[k], now)
       IN /\ hits' = [hits EXCEPT ![k] = e]
          /\ lastLim' = [endpoint |-> ep,
                         resp |-> IF Admits(e.count) THEN NoResponse
                                  ELSE RateLimitedResponse]
          /\ log' = Append(log, [key |-> k, time |-> now,
                                 status |-> lastLim'.resp.status])
    /\ now' = now
    /\ UNCHANGED authVars

\* time passes
Tick ==
    /\ now < MaxTicks * TickMs
    /\ now' = now + TickMs
    /\ UNCHANGED <<hits, log, lastLim>>
    /\ UNCHANGED authVars

NextLimiter ==
    \/ \E k \in Keys, ep \in Endpoints : Limited(k, ep)
    \/ Tick

SpecLimiter == Init /\ [][NextLimiter]_vars

\* ------------------------------------------------- failures of the store
\* user.save() of register rejects
RegisterSaveFails(r) ==
    /\ r \in reqs /\ r.op = "register" /\ r.pc = "save"
    /\ reqs' = reqs \ {r}
    /\ last' = Done([r EXCEPT !.thrown = StoreFailure.message],
                    RegisterCatch(StoreFailure))
    /\ UNCHANGED <<users, clock, nreq, hist, env, limVars>>

\* Users.findOne of login rejects
LoginFindFails(e, p) ==
    /\ CanStart
    /\ nreq' = nreq + 1
    /\ last' = Done([NewReq(nreq + 1, "login") EXCEPT
                       !.email = e, !.password = p,
                       !.thrown = StoreFailure.message],
                    LoginCatch(StoreFailure))
    /\ UNCHANGED <<users, clock, reqs, hist, env, limVars>>

\* Users.findOne of forgot-password rejects
ForgotPasswordFindFails(e) ==
    /\ CanStart
    /\ e # ""
    /\ nreq' = nreq + 1
    /\ last' = Done([NewReq(nreq + 1, "forgot") EXCEPT
                       !.email = e, !.thrown = StoreFailure.message],
                    ForgotPasswordCatch(StoreFailure))
    /\ UNCHANGED <<users, clock, reqs, hist, env, limVars>>

\* user.save() of change-password rejects
ChangePasswordSaveFails(r) ==
    /\ r \in reqs /\ r.op = "changepw" /\ r.pc = "save"
    /\ reqs' = reqs \ {r}
    /\ last' = Done([r EXCEPT !.thrown = StoreFailure.message],
                    ChangePasswordCatch(StoreFailure))
    /\ UNCHANGED <<users, clock, nreq, hist, env, limVars>>

\* User.create of google login rejects
GoogleCreateFails(r) ==
    /\ r \in reqs /\ r.op = "google" /\ r.pc = "create"
    /\ reqs' = reqs \ {r}
    /\ last' = Done([r EXCEPT !.thrown = StoreFailure.message],
                    GoogleCatch(StoreFailure.message))
    /\ UNCHANGED <<users, clock, nreq, hist, env, limVars>>

\* any deployment
InitFaults == InitCommon /\ env \in {"production", "development"}

NextFaults ==
    \/ Next
    \/ \E r \in reqs : RegisterSaveFails(r)
    \/ \E e \in Emails, p \in LoginPasswords : LoginFindFails(e, p)
    \/ \E e \in Emails : ForgotPasswordFindFails(e)
    \/ \E r \in reqs : ChangePasswordSaveFails(r)
    \/ \E r \in reqs : GoogleCreateFails(r)

SpecFaults == InitFaults /\ [][NextFaults]_vars

Spec == Init /\ [][Next]_vars
\* =================================================================== claims
\* the step answers a request
Answers(op) == last'.req.id # last.req.id /\ last'.req.op = op

\* C1: under every interleaving of change-password requests on a user, the
\* stored passwordHash verifies the password the user registered with or the
\* newPassword of a change-password request that returned success; it is
\* never a value that matches neither.
C1_HashMatchesAnAcceptedPassword ==
    \A i \in 1..Len(users) :
        "passwordHash" \in DOMAIN users[i] =>
            \E p \in hist[i].ok : Compare(p, users[i].passwordHash)

\* two change-password requests on one user interleaved: one has written and
\* returned success while the other, with another new password, read the
\* record before that write and has yet to save
C1_Witness ==
    /\ last.req.op = "changepw" /\ last.resp.success
    /\ \E r \in reqs : /\ r.op = "changepw" /\ r.pc = "save"
                       /\ r.docId = last.req.docId
                       /\ r.newPassword # last.req.newPassword
                       /\ r.oldPassword # r.newPassword
                       /\ last.req.oldPassword # last.req.newPassword
                       /\ r.docUpdatedAt = last.req.docUpdatedAt

\* the windows the limiter's decisions must follow, replayed from the log:
\* n requests of key k seen in the window that started at start
RECURSIVE WindowsRespected(_, _, _, _)
WindowsRespected(k, i, start, n) ==
    IF i > Len(log) THEN TRUE
    ELSE IF log[i].key # k THEN WindowsRespected(k, i + 1, start, n)
    ELSE LET fresh == n = 0 \/ log[i].time >= start + 15 * 60 * 1000
             s == IF fresh THEN log[i].time ELSE start
             c == IF fresh THEN 1 ELSE n + 1
         IN /\ (c <= 5 => log[i].status = 0)
            /\ (c > 5  => log[i].status = 429)
            /\ WindowsRespected(k, i + 1, s, c)

\* C2: per client key, the first 5 requests to the limited endpoints in a
\* 15-minute window that starts at the key's first-seen request are
\* admitted, every later request in that window is rejected with the fixed
\* "too many attempts" response and does not restart or extend the window,
\* and after the window has elapsed requests are admitted again.
C2_FixedWindowOfFive ==
    /\ \A k \in Keys : WindowsRespected(k, 1, 0, 0)
    /\ lastLim.resp.status = 429 =>
         /\ ~lastLim.resp.success
         /\ lastLim.resp.message =
              "Too many authentication attempts, please try again later"

\* a key that sent its first request at time 0 is rejected 10 minutes in and
\* admitted again 15 minutes after that first request
C2_Witness ==
    \E f, j, m \in 1..Len(log) :
        /\ f < j /\ j < m
        /\ log[f].key = log[m].key /\ log[j].key = log[m].key
        /\ log[f].time = 0
        /\ log[j].status = 429 /\ log[j].time = 10 * 60 * 1000
        /\ log[m].status = 0 /\ log[m].time = 15 * 60 * 1000

\* C3: an admitted login that fails because no user has the email and one
\* that fails because the password does not verify against the user's hash
\* get the same response: status 401 and the same message.
C3_LoginFailuresIdentical ==
    last.req.op = "login" =>
        /\ last.req.docId = 0 =>
               last.resp.status = 401 /\ last.resp = LoginBadPasswordResponse
        /\ (last.req.docId # 0 /\ last.req.docHash # <<>>
              /\ ~Compare(last.req.password, last.req.docHash[1])) =>
               last.resp.status = 401 /\ last.resp = LoginNoUserResponse

\* a login with a wrong password for an existing account was answered
C3_Witness ==
    /\ last.req.op = "login" /\ last.req.docId # 0
    /\ last.req.docHash # <<>>
    /\ ~Compare(last.req.password, last.req.docHash[1])
    /\ last.resp.status = 401

EmailTaken(us, e) == \E i \in 1..Len(us) : Lower(us[i].email) = Lower(e)

UniqueEmails(us) ==
    \A i, j \in 1..Len(us) : Lower(us[i].email) = Lower(us[j].email) => i = j

\* C4: a register whose email equals, without regard to case, the email of a
\* stored user is answered 409, creates no record, leaves the stored records
\* as they are and issues no token, also when two registrations of the same
\* email race; no two stored users ever share an email.
C4_DuplicateRegisterConflicts ==
    [][ /\ (Answers("register") /\ EmailTaken(users, last'.req.email)) =>
              /\ last'.resp.status = 409
              /\ last'.resp.token = <<>>
              /\ users' = users
        /\ UniqueEmails(users') ]_vars

\* a register lost against a stored email that differs from its own in case
C4_Witness ==
    /\ last.req.op = "register" /\ last.resp.status = 409
    /\ \E i \in 1..Len(users) : /\ users[i].email # last.req.email
                                /\ Lower(users[i].email) = Lower(last.req.email)

\* C5: once a register with email e and password p has succeeded, and as
\* long as no change-password of that user has succeeded, every admitted
\* login(e, p) is answered 200 with a token for that user's id and role.
C5_RegisteredLoginSucceeds ==
    (last.req.op = "login" /\ last.req.known # 0
       /\ ~hist[last.req.known].changed) =>
        /\ last.resp.status = 200
        /\ last.resp.token = <<[userId |-> last.req.known,
                                role |-> users[last.req.known].role]>>

\* an admin registered and then logged in with the same credentials
C5_Witness ==
    /\ last.req.op = "login" /\ last.req.known # 0
    /\ last.resp.status = 200
    /\ users[last.req.known].role = "admin"

SecretFields == {"passwordHash", "password", "oldPassword", "newPassword",
                 "confirmPassword"}
TextFields == {"email", "name", "phone", "role", "provider", "googleId"}

Secrets(r) ==
    {r.password, r.oldPassword, r.newPassword, r.confirmPassword} \ {""}

Discloses(obj, r) ==
    \/ (DOMAIN obj) \cap SecretFields # {}
    \/ \E f \in (DOMAIN obj) \cap TextFields : obj[f] \in Secrets(r)

\* C6: no response of register, login, google login, verify, change
\* password or forgot password carries a passwordHash field or a plaintext
\* password.
C6_NoSecretInResponse ==
    /\ last.resp.message \notin Secrets(last.req)
    /\ last.resp.error \notin Secrets(last.req)
    /\ \A n \in 1..Len(last.resp.user) : ~Discloses(last.resp.user[n], last.req)
    /\ \A n \in 1..Len(last.resp.token) : ~Discloses(last.resp.token[n], last.req)

\* a response that returns the user object of an account with a passwordHash
C6_Witness ==
    /\ last.req.op \in {"register", "login"}
    /\ last.resp.user # <<>>
    /\ "passwordHash" \in DOMAIN users[last.resp.user[1].id]

PassesValidation(r) ==
    /\ r.oldPassword # "" /\ r.newPassword # "" /\ r.confirmPassword # ""
    /\ r.newPassword = r.confirmPassword
    /\ Len(r.newPassword) >= 8

\* C7: a change-password that passes the input checks but whose oldPassword
\* does not verify against the user's stored hash is answered 401, and no
\* step of a request that is not answered with success writes the store, so
\* passwordHash and updatedAt stay what they were.
C7_WrongOldPasswordRejected ==
    [][ /\ (Answers("changepw") /\ PassesValidation(last'.req)
              /\ last'.req.docHash # <<>>
              /\ ~Compare(last'.req.oldPassword, last'.req.docHash[1])) =>
                 last'.resp.status = 401 /\ users' = users
        /\ users' # users =>
                 last'.req.id # last.req.id /\ last'.resp.success ]_vars

\* a change-password with a wrong old password was answered
C7_Witness ==
    /\ last.req.op = "changepw" /\ PassesValidation(last.req)
    /\ last.req.docHash # <<>>
    /\ ~Compare(last.req.oldPassword, last.req.docHash[1])
    /\ last.resp.status = 401

\* C8: after a change-password that returns success the stored hash verifies
\* newPassword, no longer verifies oldPassword, and updatedAt is greater
\* than it was when the request read the record.
C8_SuccessReplacesPassword ==
    [][ (Answers("changepw") /\ last'.resp.success) =>
          LET u == users'[last'.req.docId]
          IN /\ Compare(last'.req.newPassword, u.passwordHash)
             /\ ~Compare(last'.req.oldPassword, u.passwordHash)
             /\ u.updatedAt > last'.req.docUpdatedAt ]_vars

\* C9: a change-password whose oldPassword equals its newPassword fails.
C9_SamePasswordRejected ==
    (last.req.op = "changepw" /\ last.req.oldPassword = last.req.newPassword)
        => ~last.resp.success

\* C10: with the three fields non-empty and newPassword = confirmPassword, a
\* newPassword shorter than 8 is answered 400 and the store is not written;
\* one of exactly 8 is not rejected for its length and the request succeeds
\* when the user exists and oldPassword verifies.
C10_LengthBoundary ==
    [][ (/\ Answers("changepw")
         /\ last'.req.oldPassword # "" /\ last'.req.newPassword # ""
         /\ last'.req.newPassword = last'.req.confirmPassword) =>
          /\ Len(last'.req.newPassword) < 8 =>
                last'.resp.status = 400 /\ users' = users
          /\ Len(last'.req.newPassword) = 8 =>
                /\ last'.resp.status # 400
                /\ (last'.req.docId # 0 /\ last'.req.docHash # <<>>
                      /\ Compare(last'.req.oldPassword, last'.req.docHash[1]))
                     => last'.resp.status = 200 ]_vars

\* a change-password with a newPassword of exactly 8 characters succeeded
C10_Witness ==
    /\ last.req.op = "changepw" /\ Len(last.req.newPassword) = 8
    /\ last.req.oldPassword # last.req.newPassword
    /\ last.resp.status = 200

\* C11: an admitted forgot-password with a non-empty email is answered 200,
\* success, with the message it would get if the account's existence were the
\* opposite of what it is, and leaves the store as it is; one without an
\* email is answered 400.
C11_ForgotPasswordUniform ==
    [][ Answers("forgot") =>
          /\ last'.req.email = "" => last'.resp.status = 400
          /\ last'.req.email # "" =>
                /\ last'.resp.status = 200 /\ last'.resp.success
                /\ last'.resp = ForgotPasswordResponse(last'.req.email,
                                                       last'.req.docId = 0)
                /\ users' = users ]_vars

\* a forgot-password for the email of a stored user was answered
C11_Witness ==
    /\ last.req.op = "forgot" /\ last.req.docId # 0
    /\ last.resp.status = 200

\* C12: a google login that is answered for an email no stored user has
\* (without regard to case) appends exactly one user, with that email,
\* provider google and no passwordHash; one answered for an email a stored
\* user has leaves the store as it is; under every interleaving no two stored
\* users share an email, and a successful google login returns the id of the
\* one stored user with its email.
C12_GoogleLookupOrCreate ==
    [][ (Answers("google") /\ last'.req.email # "") =>
          LET e == last'.req.email
          IN /\ IF EmailTaken(users, e)
                THEN users' = users
                ELSE /\ Len(users') = Len(users) + 1
                     /\ SubSeq(users', 1, Len(users)) = users
                     /\ users'[Len(users')].email = e
                     /\ users'[Len(users')].provider = "google"
                     /\ "passwordHash" \notin DOMAIN users'[Len(users')]
             /\ UniqueEmails(users')
             /\ last'.resp.success =>
                  \E i \in 1..Len(users') :
                     /\ users'[i].email = e
                     /\ last'.resp.user[1].id = users'[i].id
                     /\ last'.resp.token[1].id = users'[i].id
                     /\ \A j \in 1..Len(users') :
                          Lower(users'[j].email) = Lower(e) => j = i ]_vars

\* of two google logins racing to create the same email, the second was
\* refused by the store and the first one's user is the stored one
C12_Witness ==
    /\ last.req.op = "google" /\ last.req.docId = 0
    /\ last.req.thrown = DuplicateKey.message
    /\ \E i \in 1..Len(users) :
          /\ users[i].email = last.req.email
          /\ users[i].provider = "google"

\* no user was created and no session token was issued by the step
NothingGranted ==
    /\ users' = users
    /\ ~last'.resp.success
    /\ last'.resp.token = <<>>

\* C13: a google login with neither token nor userInfo is answered 400; one
\* whose token is verified and fails verification is answered 401; one whose
\* claim (userInfo, or the payload of a verified token) has no email is
\* answered 400; in each case no user is created and no token is issued.
C13_GoogleInputErrors ==
    [][ Answers("google") =>
          LET r == last'.req
          IN /\ (r.token = "" /\ ~r.viaUserInfo) =>
                    last'.resp.status = 400 /\ NothingGranted
             /\ (r.token # "" /\ ~r.viaUserInfo /\ VerifyIdToken(r.token) = <<>>) =>
                    last'.resp.status = 401 /\ NothingGranted
             /\ ((r.viaUserInfo \/ VerifyIdToken(r.token) # <<>>)
                   /\ r.email = "") =>
                    last'.resp.status = 400 /\ NothingGranted ]_vars

\* a google login whose token does not verify was answered, with users stored
C13_Witness ==
    /\ last.req.op = "google" /\ last.req.token = "bad"
    /\ ~last.req.viaUserInfo
    /\ last.resp.status = 401
    /\ Len(users) > 0

\* every stored user with provider local has a passwordHash
LocalUsersHaveHash ==
    \A i \in 1..Len(users) :
        users[i].provider = "local" =>
            /\ "passwordHash" \in DOMAIN users[i]
            /\ users[i].passwordHash.alg = "bcrypt"

\* C14: in every reachable state every stored user with provider local has a
\* non-empty passwordHash, and a stored user has a googleId if and only if
\* its provider is google.
C14_ProviderInvariant ==
    /\ LocalUsersHaveHash
    /\ \A i \in 1..Len(users) :
         ("googleId" \in DOMAIN users[i]) <=> (users[i].provider = "google")

\* the last response shows the text of the error thrown while handling it
RawErrorShown ==
    /\ last.req.thrown # ""
    /\ last.resp.message = last.req.thrown \/ last.resp.error = last.req.thrown

\* outside development the handlers of auth.js answer a failure they did not
\* expect with "Internal server error" and never with its text
AuthRoutesHideErrors ==
    (env # "development" /\ last.req.op # "google") =>
        /\ ~RawErrorShown
        /\ (last.req.thrown # "" /\ last.resp.status = 500) =>
               last.resp.error = "Internal server error"

\* C15: when a store or bcrypt call fails inside register, login,
\* forgot-password, change-password or google login and NODE_ENV is not
\* development, no field of the response is the raw text of the error.
C15_NoRawErrorText ==
    env # "development" => ~RawErrorShown

\* the token of a successful register carries the role of the stored user
RegisterTokenCarriesRole ==
    (last.req.op = "register" /\ last.resp.status = 201) =>
        last.resp.token[1].role = users[last.resp.user[1].id].role

\* C16: POST /register has no guard, so every caller is unauthenticated: the
\* user a successful register stores has role user, never admin, and the
\* returned token carries the stored role.
C16_RegisterRoleUser ==
    /\ RegisterTokenCarriesRole
    /\ (last.req.op = "register" /\ last.resp.status = 201) =>
           users[last.resp.user[1].id].role = "user"

\* C17: an admitted login for a stored account without passwordHash is
\* answered, for every password, 401 with the response of a login for an
\* unknown email; never an internal error, never a token.
C17_PasswordlessLoginUnauthorized ==
    (last.req.op = "login" /\ last.req.docId # 0 /\ last.req.docHash = <<>>) =>
        /\ last.resp.status = 401
        /\ last.resp = LoginNoUserResponse
        /\ last.resp.token = <<>>

\* the write of a successful change-password is applied to a stored hash
\* that its oldPassword verifies
VerifiedAtWrite ==
    (Answers("changepw") /\ last'.resp.success) =>
        /\ "passwordHash" \in DOMAIN users[last'.req.docId]
        /\ Compare(last'.req.oldPassword, users[last'.req.docId].passwordHash)

\* C18: a change-password is answered with success only if its oldPassword
\* verifies against the hash stored at the moment its write is applied, so
\* of two concurrent requests with the same correct oldPassword and
\* different newPasswords at most one succeeds.
C18_ChangeVerifiedAtWrite ==
    [][VerifiedAtWrite]_vars
====
